---- MODULE Spec2Model ----
(***************************************************************************)
(* Model of the douban collection analyzer's scraping service              *)
(* (src/unnamed/part_000): the parsers parseYear, parseRating, parseMovie, *)
(* parseBook, parseMusic, the aggregator computeStats, the paginator       *)
(* fetchCategory and the orchestrator fetchDoubanData.                     *)
(*                                                                         *)
(* A JavaScript string is a sequence of UTF-16 code units (integers):      *)
(* "2019" is <<50, 48, 49, 57>>.  An optional value (null / undefined /    *)
(* no regex match) is Null == <<>>, a present value v is Some(v) == <<v>>. *)
(***************************************************************************)
EXTENDS Integers, Sequences, FiniteSets

VARIABLES
    pc,           \* control point of the call being modelled
    arg,          \* argument(s) of the function being called
    ret,          \* its return value, Null before it returned
    userProfile,  \* result of fetchUserProfile, Null when it failed (line 236)
    moviesAndTV,  \* result of fetchCategory(.., 'movie', ..)   (line 237)
    books,        \* result of fetchCategory(.., 'book', ..)
    music,        \* result of fetchCategory(.., 'music', ..)
    report,       \* the Report fetchDoubanData returns, Null before
    origin,       \* what the origin site answers: to the profile request and,
                  \* per listing, to the request of each page
    fc,           \* per listing, the locals of its fetchCategory call and
                  \* where the call stands
    trace,        \* per listing, what its fetchCategory call did so far, in
                  \* order: callbacks, requests, parsed pages, delays
    ui            \* the App component: its state hooks, and the handleSearch
                  \* calls that await their fetchDoubanData

\* The state of a fetchDoubanData call.
pipelineVars ==
    <<userProfile, moviesAndTV, books, music, report, origin, fc, trace>>

vars == <<pc, arg, ret, pipelineVars, ui>>

Null == <<>>
Some(v) == <<v>>

\* The listings fetchDoubanData fetches (lines 238-240).
Categories == {"movie", "book", "music"}

(***************************************************************************)
(* Bounds of the model.                                                    *)
(***************************************************************************)
MaxTextLen == 9       \* longest context string given to parseYear
MaxDesc == 2          \* most descendant elements of a fragment given to parseRating
MaxStatsItems == 3    \* longest item list given to computeStats alone
MaxTotalCount == 2    \* largest totalCount given to computeStats alone
MaxMovieItems == 2    \* most items gathered from the movie listing
MaxBookItems == 1     \* most items gathered from the book listing
MaxMusicItems == 1    \* most items gathered from the music listing
MaxVaried == 2        \* pages of a lone listing whose content varies freely

(***************************************************************************)
(* Strings.                                                                *)
(***************************************************************************)
\* The regex class \d.
IsDigit(ch) == ch \in 48..57

DigitVal(ch) == ch - 48

\* parseInt(s, 10) of a string of decimal digits.
RECURSIVE ParseInt(_)
ParseInt(s) ==
    IF s = <<>> THEN 0
    ELSE 10 * ParseInt(SubSeq(s, 1, Len(s) - 1)) + DigitVal(s[Len(s)])

\* Number.prototype.toString() of a non-negative integer.
RECURSIVE ToString(_)
ToString(n) ==
    IF n < 10 THEN <<48 + n>>
    ELSE Append(ToString(n \div 10), 48 + (n % 10))

\* The end (index of the last digit) of the longest run of digits that
\* starts at s[i]: the greedy \d+ .
RECURSIVE DigitsEnd(_, _)
DigitsEnd(s, i) ==
    IF i + 1 <= Len(s) /\ IsDigit(s[i + 1]) THEN DigitsEnd(s, i + 1) ELSE i

\* Whether sub occurs in s at index i.
OccursAt(s, sub, i) ==
    /\ i >= 1
    /\ i + Len(sub) - 1 <= Len(s)
    /\ SubSeq(s, i, i + Len(sub) - 1) = sub

\* String.prototype.indexOf from index i on, 1-based; 0 when sub is not in s.
RECURSIVE IndexFrom(_, _, _)
IndexFrom(s, sub, i) ==
    IF i + Len(sub) - 1 > Len(s) THEN 0
    ELSE IF OccursAt(s, sub, i) THEN i
    ELSE IndexFrom(s, sub, i + 1)

\* s contains sub: the attribute selector [class*="sub"], a literal regex test.
Includes(s, sub) == IndexFrom(s, sub, 1) # 0

(***************************************************************************)
(* parseYear (lines 18-21).                                                *)
(***************************************************************************)
\* The regex /(\d{4})/ tried at index i, then at i + 1, ...: the index of
\* the leftmost match, 0 when there is none.
RECURSIVE YearMatchFrom(_, _)
YearMatchFrom(text, i) ==
    IF i + 3 > Len(text) THEN 0
    ELSE IF \A k \in 0..3 : IsDigit(text[i + k]) THEN i
    ELSE YearMatchFrom(text, i + 1)

\* A plausible slip: the last match instead of the first.
RECURSIVE YearMatchLast(_, _)
YearMatchLast(text, i) ==
    IF i + 3 > Len(text) THEN 0
    ELSE LET later == YearMatchLast(text, i + 1)
         IN  IF later # 0 THEN later
             ELSE IF \A k \in 0..3 : IsDigit(text[i + k]) THEN i
             ELSE 0

parseYearLastMatch(text) ==
    LET i == YearMatchLast(text, 1)
    IN  IF i = 0 THEN Null ELSE Some(ParseInt(SubSeq(text, i, i + 3)))

parseYear(text) ==
    LET i == YearMatchFrom(text, 1)
    IN  IF i = 0 THEN Null ELSE Some(ParseInt(SubSeq(text, i, i + 3)))

(***************************************************************************)
(* Calls of parseYear on every context string of '0', '1' and '/' of up to *)
(* MaxTextLen characters.                                                  *)
(***************************************************************************)
YearAlphabet == {48, 49, 47}

YearTexts == UNION {[1..n -> YearAlphabet] : n \in 0..MaxTextLen}

EmptyResult == [items |-> <<>>, totalCount |-> 0]

\* What axios.get(url) ends with: a transport or non-2xx error, or the
\* response with its data.
NetError == [ok |-> FALSE, data |-> Null]
NetOk(data) == [ok |-> TRUE, data |-> Some(data)]

\* An origin that answers nothing: every request fails.  A listing answers
\* the request of page k with first[k], and with rest beyond first.
NoOrigin ==
    [profile |-> NetError,
     listing |-> [c \in Categories |-> [first |-> <<>>, rest |-> NetError]]]

\* A fetchCategory call that was not made.
IdleCall ==
    [at |-> "idle", start |-> 0, hasMore |-> TRUE, items |-> <<>>,
     pageCount |-> 0, totalCount |-> 0]

\* The App component as mounted: the initial values of its state hooks
\* (App.jsx lines 195-202), no handleSearch call pending, none started.
NoStatus == [text |-> "", category |-> "", page |-> 0]

IdleUI ==
    [username |-> <<>>, loading |-> FALSE, status |-> NoStatus, data |-> Null,
     summary |-> Null, userProfile |-> Null, error |-> "",
     pending |-> <<>>, started |-> 0]

\* No fetchDoubanData call is running: a parser or the aggregator is called
\* on its own.
NoPipeline ==
    /\ userProfile = Null
    /\ moviesAndTV = EmptyResult
    /\ books = EmptyResult
    /\ music = EmptyResult
    /\ report = Null
    /\ origin = NoOrigin
    /\ fc = [c \in Categories |-> IdleCall]
    /\ trace = [c \in Categories |-> <<>>]
    /\ ui = IdleUI

InitYear ==
    /\ pc = "parseYear"
    /\ arg \in YearTexts
    /\ ret = Null
    /\ NoPipeline

CallParseYear ==
    /\ pc = "parseYear"
    /\ ret' = parseYear(arg)
    /\ pc' = "returned"
    /\ UNCHANGED <<ui, arg, pipelineVars>>

NextYear == CallParseYear

SpecYear == InitYear /\ [][NextYear]_vars

\* The indices at which four consecutive digits start.
YearWindows(text) ==
    {i \in 1..(Len(text) - 3) : \A k \in 0..3 : text[i + k] \in 48..57}

\* The maximal digit runs of exactly four digits, by their start index.
ExactRuns(text) ==
    {i \in YearWindows(text) :
        /\ (i = 1 \/ text[i - 1] \notin 48..57)
        /\ (i + 4 > Len(text) \/ text[i + 4] \notin 48..57)}

Min(S) == CHOOSE x \in S : \A y \in S : x <= y

Value4(text, i) ==
    1000 * (text[i] - 48) + 100 * (text[i + 1] - 48)
        + 10 * (text[i + 2] - 48) + (text[i + 3] - 48)

\* C8: for every context string that contains four consecutive digits,
\* parseYear returns the integer value of the first (leftmost) four of
\* them, also when several such runs exist; for every string with no digit
\* at all it returns null.
C8_FirstRunWins ==
    pc = "returned" =>
        /\ YearWindows(arg) # {} =>
              ret = Some(Value4(arg, Min(YearWindows(arg))))
        /\ (\A i \in 1..Len(arg) : arg[i] \notin 48..57) => ret = Null

\* A string with two separate runs of four digits of different value, the
\* first of which was returned.
C8_Witness ==
    /\ pc = "returned"
    /\ \E i, j \in YearWindows(arg) :
          /\ i + 4 < j
          /\ arg[i + 4] = 47
          /\ Value4(arg, i) # Value4(arg, j)
          /\ ret = Some(Value4(arg, i))

\* C9: parseYear takes the year only from the first run of exactly four
\* consecutive digits; a digit run of any other length is not used and
\* contributes no digits to the result.
C9_ExactlyFourDigits ==
    pc = "returned" =>
        ret = IF ExactRuns(arg) = {} THEN Null
              ELSE Some(Value4(arg, Min(ExactRuns(arg))))

(***************************************************************************)
(* parseRating (lines 24-58).  A listing fragment el is a record; el.desc  *)
(* is the sequence of its descendant elements in document order, each with *)
(* a tag and an optional class attribute.                                  *)
(***************************************************************************)
StrRating == <<114, 97, 116, 105, 110, 103>>        \* "rating"
StrAllstar == <<97, 108, 108, 115, 116, 97, 114>>   \* "allstar"
StrDashT == <<45, 116>>                             \* "-t"

\* The regex /rating(\d)-t/ tried at index i, then at i + 1, ...: the index
\* of the leftmost match, 0 when there is none.
RECURSIVE RatingTFrom(_, _)
RatingTFrom(className, i) ==
    IF i + 8 > Len(className) THEN 0
    ELSE IF /\ OccursAt(className, StrRating, i)
            /\ IsDigit(className[i + 6])
            /\ OccursAt(className, StrDashT, i + 7) THEN i
    ELSE RatingTFrom(className, i + 1)

\* The regex /allstar(\d+)/, likewise.
RECURSIVE AllstarFrom(_, _)
AllstarFrom(className, i) ==
    IF i + 7 > Len(className) THEN 0
    ELSE IF OccursAt(className, StrAllstar, i) /\ IsDigit(className[i + 7]) THEN i
    ELSE AllstarFrom(className, i + 1)

\* A plausible slip: the allstar number taken as it is, not divided by 10.
MatchClassUnscaled(className) ==
    LET m1 == RatingTFrom(className, 1)
        m2 == AllstarFrom(className, 1)
    IN  IF m1 # 0 THEN Some(DigitVal(className[m1 + 6]))
        ELSE IF m2 # 0
             THEN Some(ParseInt(SubSeq(className, m2 + 7, DigitsEnd(className, m2 + 7))))
        ELSE Null

\* Lines 34-39 (and again 50-53): the rating one class attribute encodes,
\* Null when neither pattern matches it.
MatchClass(className) ==
    LET m1 == RatingTFrom(className, 1)
        m2 == AllstarFrom(className, 1)
    IN  IF m1 # 0 THEN Some(DigitVal(className[m1 + 6]))
        ELSE IF m2 # 0
             THEN Some(ParseInt(SubSeq(className, m2 + 7, DigitsEnd(className, m2 + 7)))
                         \div 10)
        ELSE Null

\* A plausible slip: the selector without its second alternative.
IsRatingElRatingOnly(e) ==
    /\ e.class # Null
    /\ Includes(e.class[1], StrRating)

\* The selector '[class*="rating"], [class*="allstar"]' (line 26).
IsRatingEl(e) ==
    /\ e.class # Null
    /\ Includes(e.class[1], StrRating) \/ Includes(e.class[1], StrAllstar)

\* The selector 'span' (line 46).
IsSpan(e) == e.tag = "span"

\* attr('class') || ''  (line 31).
ClassOrEmpty(e) == IF e.class = Null THEN <<>> ELSE e.class[1]

\* The loop of lines 30-40 from index i on: the first rating found.
RECURSIVE ScanRatingEl(_, _)
ScanRatingEl(ratingEl, i) ==
    IF i > Len(ratingEl) THEN Null
    ELSE LET m == MatchClass(ClassOrEmpty(ratingEl[i]))
         IN  IF m # Null THEN m ELSE ScanRatingEl(ratingEl, i + 1)

\* The loop of lines 47-55 from index i on.
RECURSIVE ScanSpans(_, _)
ScanSpans(spans, i) ==
    IF i > Len(spans) THEN Null
    ELSE LET cls == spans[i].class
             m == IF cls # Null /\ cls[1] # <<>> THEN MatchClass(cls[1]) ELSE Null
         IN  IF m # Null THEN m ELSE ScanSpans(spans, i + 1)

parseRating(el) ==
    LET ratingEl == SelectSeq(el.desc, IsRatingEl)
        first == ScanRatingEl(ratingEl, 1)
        spans == SelectSeq(el.desc, IsSpan)
        second == ScanSpans(spans, 1)
    IN  IF first # Null THEN first[1]
        ELSE IF second # Null THEN second[1]
        ELSE 0

(***************************************************************************)
(* Calls of parseRating on every fragment of up to MaxDesc descendants     *)
(* whose class attributes are drawn from SampleClasses.                    *)
(***************************************************************************)
RatingT(n) == StrRating \o <<48 + n>> \o StrDashT   \* "rating{n}-t"
AllStar(nn) == StrAllstar \o ToString(nn)           \* "allstar{nn}"

SampleClasses ==
    {RatingT(n) : n \in {0, 1, 2, 3, 4, 5, 7}}
        \cup {AllStar(nn) : nn \in {0, 5, 10, 20, 30, 40, 50, 100}}
        \cup {StrRating, <<100, 97, 116, 101>>}     \* "rating", "date"

SampleElements ==
    [tag : {"span", "div"}, class : {Null} \cup {Some(c) : c \in SampleClasses}]

\* A fragment: the text of its first title link ("" when it has none), the
\* link's href, the text of its first context element, the src of its
\* cover image, and its descendants.
Frag(titleText, ctxText, desc) ==
    [titleText |-> titleText, href |-> "href", ctxText |-> ctxText,
     img |-> "src", desc |-> desc]

InitRating ==
    /\ pc = "parseRating"
    /\ \E n \in 0..MaxDesc : \E d \in [1..n -> SampleElements] :
          arg = Frag(<<>>, <<>>, d)
    /\ ret = Null
    /\ NoPipeline

CallParseRating ==
    /\ pc = "parseRating"
    /\ ret' = Some(parseRating(arg))
    /\ pc' = "returned"
    /\ UNCHANGED <<ui, arg, pipelineVars>>

NextRating == CallParseRating

SpecRating == InitRating /\ [][NextRating]_vars

\* className holds "rating{d}-t" for some digit d at index i.
HasRatingT(className, i) ==
    /\ i + 8 <= Len(className)
    /\ SubSeq(className, i, i + 5) = StrRating
    /\ className[i + 6] \in 48..57
    /\ SubSeq(className, i + 7, i + 8) = StrDashT

\* className holds "allstar{d}" for some digit d at index i.
HasAllstar(className, i) ==
    /\ i + 7 <= Len(className)
    /\ SubSeq(className, i, i + 6) = StrAllstar
    /\ className[i + 7] \in 48..57

\* Element e carries a rating marker of either naming scheme.
IsMarker(e) ==
    /\ e.class # Null
    /\ \E i \in 1..Len(e.class[1]) :
          HasRatingT(e.class[1], i) \/ HasAllstar(e.class[1], i)

Markers(el) == {k \in 1..Len(el.desc) : IsMarker(el.desc[k])}

\* C6: parseRating's result is an integer in 0..5 for every fragment,
\* whatever class names it contains.
C6_RatingInRange ==
    pc = "returned" => ret[1] \in 0..5

\* C7: a fragment whose only rating marker is a class rating{N}-t with N in
\* 0..5 gives N; one whose only marker is allstar{NN} with NN in
\* {0, 10, 20, 30, 40, 50} gives NN / 10; a fragment with neither pattern
\* on any descendant gives 0.
C7_MarkerDecoded ==
    pc = "returned" =>
        /\ \A k \in 1..Len(arg.desc) : Markers(arg) = {k} =>
              /\ \A n \in 0..5 :
                    arg.desc[k].class = Some(RatingT(n)) => ret = Some(n)
              /\ \A n \in 0..5 :
                    arg.desc[k].class = Some(AllStar(10 * n)) => ret = Some(n)
        /\ Markers(arg) = {} => ret = Some(0)

C7_Witness ==
    /\ pc = "returned"
    /\ Len(arg.desc) = 2
    /\ arg.desc[1].class = Some(StrRating)
    /\ arg.desc[2] = [tag |-> "div", class |-> Some(AllStar(40))]
    /\ ret = Some(4)

(***************************************************************************)
(* parseMovie, parseBook, parseMusic (lines 122-187).                      *)
(***************************************************************************)
\* The white space String.prototype.trim() strips.
IsSpace(ch) ==
    ch \in {9, 10, 11, 12, 13, 32, 160, 5760, 8232, 8233, 8239, 8287, 12288, 65279}
        \cup 8192..8202

RECURSIVE TrimStart(_)
TrimStart(s) ==
    IF s # <<>> /\ IsSpace(Head(s)) THEN TrimStart(Tail(s)) ELSE s

RECURSIVE TrimEnd(_)
TrimEnd(s) ==
    IF s # <<>> /\ IsSpace(s[Len(s)]) THEN TrimEnd(SubSeq(s, 1, Len(s) - 1)) ELSE s

\* String.prototype.trim().
Trim(s) == TrimEnd(TrimStart(s))

\* s.split('/')[0]: s up to its first '/', all of s when it has none.
SplitHead(s) ==
    LET i == IndexFrom(s, <<47>>, 1)
    IN  IF i = 0 THEN s ELSE SubSeq(s, 1, i - 1)

StrSeason == <<83, 101, 97, 115, 111, 110>>   \* "Season"
StrJi4 == <<23395>>                           \* U+5B63, "season" (ji)
StrJi2 == <<38598>>                           \* U+96C6, "episode" (ji)

\* /Season|U+5B63|U+96C6/.test(s)  (line 138).
TestTV(s) ==
    Includes(s, StrSeason) \/ Includes(s, StrJi4) \/ Includes(s, StrJi2)

\* A plausible slip: the keywords looked for in the raw title text, before
\* it is cut at the first '/'.
parseMovieRawTitle(el) ==
    LET title == Trim(SplitHead(Trim(el.titleText)))
        intro == Trim(el.ctxText)
        isTV == TestTV(el.titleText) \/ TestTV(intro)
    IN  [title |-> title, url |-> el.href, year |-> parseYear(intro),
         cover |-> el.img, rating |-> parseRating(el),
         type |-> IF isTV THEN "tv" ELSE "movie"]

parseMovie(el) ==
    LET title == Trim(SplitHead(Trim(el.titleText)))
        intro == Trim(el.ctxText)
        isTV == TestTV(title) \/ TestTV(intro)
    IN  [title |-> title, url |-> el.href, year |-> parseYear(intro),
         cover |-> el.img, rating |-> parseRating(el),
         type |-> IF isTV THEN "tv" ELSE "movie"]

parseBook(el) ==
    LET title == Trim(SplitHead(Trim(el.titleText)))
        pub == Trim(el.ctxText)
    IN  [title |-> title, url |-> el.href, year |-> parseYear(pub),
         cover |-> el.img, rating |-> parseRating(el), type |-> "book"]

parseMusic(el) ==
    LET title == Trim(SplitHead(Trim(el.titleText)))
        intro == Trim(el.ctxText)
    IN  [title |-> title, url |-> el.href, year |-> parseYear(intro),
         cover |-> el.img, rating |-> parseRating(el), type |-> "music"]

\* The parse function fetchDoubanData hands to fetchCategory for each
\* listing (lines 238-240).
ParseFn(category, el) ==
    CASE category = "movie" -> parseMovie(el)
      [] category = "book" -> parseBook(el)
      [] category = "music" -> parseMusic(el)

(***************************************************************************)
(* Calls of the three parse functions on sample fragments.                 *)
(***************************************************************************)
SampleTitles ==
    { <<65>>,                                           \* "A"
      <<83, 101, 97, 115, 111, 110, 32, 50>>,           \* "Season 2"
      <<88, 23395>>,                                    \* "X" U+5B63
      <<88, 38598>>,                                    \* "X" U+96C6
      <<65, 32, 47, 32, 83, 101, 97, 115, 111, 110>>,   \* "A / Season"
      <<115, 101, 97, 115, 111, 110>>,                  \* "season"
      <<83, 101, 97, 115, 111>>,                        \* "Seaso"
      <<32, 23395, 32, 47, 66, 32>>,                    \* " " U+5B63 " /B "
      <<>> }                                            \* no title link

SampleContexts ==
    { <<>>,
      <<50, 48, 49, 57>>,                               \* "2019"
      <<50, 48, 49, 57, 45, 48, 51, 32, 47, 32, 67, 104, 105, 110, 97>>,
                                                        \* "2019-03 / China"
      <<49, 50, 38598>>,                                \* "12" U+96C6
      <<32, 83, 101, 97, 115, 111, 110, 10>> }          \* " Season\n"

SampleDescs ==
    { <<>>,
      <<[tag |-> "span", class |-> Some(RatingT(4))]>>,
      <<[tag |-> "div", class |-> Some(AllStar(30))]>> }

InitParse ==
    /\ pc = "parse"
    /\ \E c \in Categories, t \in SampleTitles, x \in SampleContexts, d \in SampleDescs :
          arg = [category |-> c, el |-> Frag(t, x, d)]
    /\ ret = Null
    /\ NoPipeline

CallParseFn ==
    /\ pc = "parse"
    /\ ret' = Some(ParseFn(arg.category, arg.el))
    /\ pc' = "returned"
    /\ UNCHANGED <<ui, arg, pipelineVars>>

NextParse == CallParseFn

SpecParse == InitParse /\ [][NextParse]_vars

\* s contains one of the keywords Season, U+5B63, U+96C6.
HasKeyword(s) ==
    \E i \in 1..Len(s) :
        \/ s[i] \in {23395, 38598}
        \/ i + 5 <= Len(s) /\ SubSeq(s, i, i + 5) = StrSeason

\* C10: an item of the movie listing is a serial (type 'tv') if and only if
\* its normalized title or its context text contains one of the keywords,
\* and a movie otherwise; items of the book and music listings are always
\* of type book and music.
C10_Classification ==
    pc = "returned" =>
        /\ arg.category = "movie" =>
              ret[1].type =
                  IF HasKeyword(ret[1].title) \/ HasKeyword(arg.el.ctxText)
                  THEN "tv" ELSE "movie"
        /\ arg.category = "book" => ret[1].type = "book"
        /\ arg.category = "music" => ret[1].type = "music"

\* A movie-listing fragment whose raw title names a keyword only after the
\* first '/', so that the normalized title has none, parsed as a movie.
C10_Witness ==
    /\ pc = "returned"
    /\ arg.category = "movie"
    /\ HasKeyword(arg.el.titleText)
    /\ ~HasKeyword(ret[1].title)
    /\ ~HasKeyword(arg.el.ctxText)
    /\ ret[1].type = "movie"

(***************************************************************************)
(* computeStats (lines 189-212).                                           *)
(***************************************************************************)
RecentCount == 10

\* The forEach of lines 191-197 from item i on.
RECURSIVE Distribute(_, _, _)
Distribute(distribution, items, i) ==
    IF i > Len(items) THEN distribution
    ELSE LET r == items[i].rating
             k == IF r \in DOMAIN distribution THEN r ELSE 0
         IN  Distribute([distribution EXCEPT ![k] = @ + 1], items, i + 1)

\* A plausible slip: an item whose rating is no key of the distribution is
\* dropped instead of counted as unrated.
RECURSIVE DistributeKnown(_, _, _)
DistributeKnown(distribution, items, i) ==
    IF i > Len(items) THEN distribution
    ELSE LET r == items[i].rating
         IN  DistributeKnown(IF r \in DOMAIN distribution
                             THEN [distribution EXCEPT ![r] = @ + 1]
                             ELSE distribution,
                             items, i + 1)

\* items.slice(0, 10).map(..)  (lines 200-205).
Recent(items) ==
    [i \in 1..(IF Len(items) < RecentCount THEN Len(items) ELSE RecentCount) |->
        [title |-> items[i].title, url |-> items[i].url,
         cover |-> items[i].cover, rating |-> items[i].rating]]

computeStatsDropUnknown(items, totalCount) ==
    [total |-> IF totalCount # 0 THEN totalCount ELSE Len(items),
     distribution |-> DistributeKnown([k \in 0..5 |-> 0], items, 1),
     recent |-> Recent(items)]

\* A plausible slip: the fetched count always, the parsed total never.
computeStatsFetchedTotal(items, totalCount) ==
    [total |-> Len(items),
     distribution |-> Distribute([k \in 0..5 |-> 0], items, 1),
     recent |-> Recent(items)]

computeStats(items, totalCount) ==
    [total |-> IF totalCount # 0 THEN totalCount ELSE Len(items),
     distribution |-> Distribute([k \in 0..5 |-> 0], items, 1),
     recent |-> Recent(items)]

(***************************************************************************)
(* Calls of computeStats on item lists of up to MaxStatsItems parsed items *)
(* of every rating the sample classes encode.                              *)
(***************************************************************************)
StatsItems ==
    {parseBook(Frag(<<65>>, <<>>, <<[tag |-> "span", class |-> Some(c)]>>)) :
        c \in SampleClasses}

InitStats ==
    /\ pc = "computeStats"
    /\ \E n \in 0..MaxStatsItems : \E its \in [1..n -> StatsItems] :
       \E tc \in 0..MaxTotalCount :
          arg = [items |-> its, totalCount |-> tc]
    /\ ret = Null
    /\ NoPipeline

CallComputeStats ==
    /\ pc = "computeStats"
    /\ ret' = Some(computeStats(arg.items, arg.totalCount))
    /\ pc' = "returned"
    /\ UNCHANGED <<ui, arg, pipelineVars>>

NextStats == CallComputeStats

SpecStats == InitStats /\ [][NextStats]_vars

\* C1: the bucket counts of the distribution (keys 0..5) sum to
\* items.length whatever totalCount is; bucket k in 1..5 counts the items
\* rated k and bucket 0 all others, an item whose rating is not one of 0..5
\* among them.
C1_DistributionSum ==
    pc = "returned" =>
        LET d == ret[1].distribution
            its == arg.items
        IN  /\ DOMAIN d = 0..5
            /\ d[0] + d[1] + d[2] + d[3] + d[4] + d[5] = Len(its)
            /\ \A k \in 1..5 :
                  d[k] = Cardinality({i \in 1..Len(its) : its[i].rating = k})
            /\ d[0] = Cardinality({i \in 1..Len(its) : its[i].rating \notin 1..5})

\* A list with an item rated outside 0..5 and an item rated inside 1..5.
C1_Witness ==
    /\ pc = "returned"
    /\ \E i, j \in 1..Len(arg.items) :
          /\ arg.items[i].rating \notin 0..5
          /\ arg.items[j].rating \in 1..5
    /\ ret[1].distribution[0] >= 1

\* C2: total is totalCount whenever totalCount > 0, and items.length
\* otherwise.
C2_Total ==
    pc = "returned" =>
        ret[1].total =
            IF arg.totalCount > 0 THEN arg.totalCount ELSE Len(arg.items)

\* A positive totalCount that differs from the number of items.
C2_Witness ==
    /\ pc = "returned"
    /\ arg.totalCount > 0
    /\ arg.totalCount # Len(arg.items)
    /\ ret[1].total = arg.totalCount

(***************************************************************************)
(* The aggregation stage of fetchDoubanData (lines 243-300): what it does  *)
(* between the resolution of Promise.all and its return.                   *)
(***************************************************************************)
IsMovie(i) == i.type = "movie"
\* A plausible slip: the filter tests the Report's name of the kind, which
\* no parsed item carries.
IsTVSerial(i) == i.type = "serial"

IsTV(i) == i.type = "tv"

\* A plausible slip: the timeline's condition (a year and a high rating)
\* used for the item list too.
IsHighRatedWithYear(i) == i.rating >= 4 /\ i.year # Null

\* The filter of line 288.
IsHighRated(i) == i.rating >= 4

HasYearKey(yearMap, y) == \E k \in 1..Len(yearMap) : yearMap[k].year = y

\* A plausible slip: the rating is tested only after the year's entry was
\* made.
processItemEntryFirst(yearMap, item, type) ==
    IF item.year = Null \/ item.year[1] = 0 THEN yearMap
    ELSE LET y == ToString(item.year[1])
             withY == IF HasYearKey(yearMap, y) THEN yearMap
                      ELSE Append(yearMap, [year |-> y, movie |-> 0, tv |-> 0,
                                            book |-> 0, music |-> 0])
         IN  IF item.rating < 4 THEN withY
             ELSE [k \in 1..Len(withY) |->
                     IF withY[k].year = y
                     THEN [withY[k] EXCEPT ![type] = @ + item.rating]
                     ELSE withY[k]]

\* processItem (lines 265-274).  yearMap is the Map's entries in insertion
\* order; !item.year is true of null and of 0.
processItem(yearMap, item, type) ==
    IF item.year = Null \/ item.year[1] = 0 \/ item.rating < 4 THEN yearMap
    ELSE LET y == ToString(item.year[1])
             withY == IF HasYearKey(yearMap, y) THEN yearMap
                      ELSE Append(yearMap, [year |-> y, movie |-> 0, tv |-> 0,
                                            book |-> 0, music |-> 0])
         IN  [k \in 1..Len(withY) |->
                 IF withY[k].year = y
                 THEN [withY[k] EXCEPT ![type] = @ + item.rating]
                 ELSE withY[k]]

\* items.forEach(i => processItem(i, type)) from item i on (lines 276-279).
RECURSIVE ProcessAll(_, _, _, _)
ProcessAll(yearMap, items, i, type) ==
    IF i > Len(items) THEN yearMap
    ELSE ProcessAll(processItem(yearMap, items[i], type), items, i + 1, type)

\* The comparator of line 281.
CompareYear(a, b) == ParseInt(a.year) - ParseInt(b.year)

\* e put into a sorted sequence, after the entries that compare equal.
RECURSIVE InsertSorted(_, _)
InsertSorted(sorted, e) ==
    IF sorted = <<>> THEN <<e>>
    ELSE IF CompareYear(sorted[Len(sorted)], e) <= 0 THEN Append(sorted, e)
    ELSE Append(InsertSorted(SubSeq(sorted, 1, Len(sorted) - 1), e),
                sorted[Len(sorted)])

\* Array.prototype.sort with that comparator (a stable sort), the first n
\* entries sorted.
RECURSIVE SortPrefix(_, _)
SortPrefix(entries, n) ==
    IF n = 0 THEN <<>> ELSE InsertSorted(SortPrefix(entries, n - 1), entries[n])

SortByYear(entries) == SortPrefix(entries, Len(entries))

\* { ...stats, label }  (lines 293-296).
WithLabel(stats, label) ==
    [total |-> stats.total, distribution |-> stats.distribution,
     recent |-> stats.recent, label |-> label]

\* Lines 243-300.
BuildReport(profile, mtv, bk, mu) ==
    LET movies == SelectSeq(mtv.items, IsMovie)
        tvs == SelectSeq(mtv.items, IsTV)
        movieStats == computeStats(movies, Len(movies))
        tvStats == computeStats(tvs, Len(tvs))
        bookStats == computeStats(bk.items, bk.totalCount)
        musicStats == computeStats(mu.items, mu.totalCount)
        yearMap ==
            ProcessAll(
                ProcessAll(
                    ProcessAll(
                        ProcessAll(<<>>, movies, 1, "movie"),
                        tvs, 1, "tv"),
                    bk.items, 1, "book"),
                mu.items, 1, "music")
        yearData == SortByYear(yearMap)
        allItems == SelectSeq(movies \o tvs \o bk.items \o mu.items, IsHighRated)
    IN  [yearData |-> yearData,
         summary |->
            [movie |-> WithLabel(movieStats, <<30005, 24433>>),
             tv |-> WithLabel(tvStats, <<30005, 35270, 21095>>),
             book |-> WithLabel(bookStats, <<22270, 20070>>),
             music |-> WithLabel(musicStats, <<38899, 20048>>)],
         userProfile |-> profile,
         allItems |-> allItems]

(***************************************************************************)
(* fetchDoubanData from the point where the profile and the three listings *)
(* are gathered (line 242), for every choice of up to MaxMovieItems,       *)
(* MaxBookItems and MaxMusicItems sample fragments per listing.            *)
(***************************************************************************)
Y2019 == <<50, 48, 49, 57>>
Y1999 == <<49, 57, 57, 57>>
Y2005 == <<50, 48, 48, 53>>
Y0000 == <<48, 48, 48, 48>>

SpanOf(className) == <<[tag |-> "span", class |-> Some(className)]>>
DivOf(className) == <<[tag |-> "div", class |-> Some(className)]>>

MovieFrags ==
    { Frag(<<65>>, Y2019, SpanOf(RatingT(4))),         \* movie, 2019, 4
      Frag(<<88, 23395>>, Y1999, DivOf(AllStar(50))),  \* serial, 1999, 5
      Frag(<<67>>, <<>>, SpanOf(RatingT(5))),          \* movie, no year, 5
      Frag(<<68>>, Y2019, SpanOf(RatingT(3))),         \* movie, 2019, 3
      Frag(<<69>>, Y0000, SpanOf(RatingT(5))),         \* movie, year 0, 5
      Frag(<<88, 38598>>, Y2019, SpanOf(RatingT(4))) } \* serial, 2019, 4

BookFrags ==
    { Frag(<<65>>, Y1999, SpanOf(RatingT(4))),         \* 1999, 4
      Frag(<<66>>, Y2019, DivOf(AllStar(50))),         \* 2019, 5
      Frag(<<67>>, Y2005, <<>>) }                      \* 2005, unrated

MusicFrags ==
    { Frag(<<65>>, Y2005, SpanOf(RatingT(5))),         \* 2005, 5
      Frag(<<66>>, Y1999, SpanOf(RatingT(2))) }        \* 1999, 2

\* The total parsed from the first page's title: 0 when it shows none.
ParsedTotals == {0, 30}

\* What fetchCategory returns when the fragments frags were listed
\* (lines 97-102 and 114-119).
GatheredResult(category, frags, parsedTotal) ==
    [items |-> [i \in 1..Len(frags) |-> ParseFn(category, frags[i])],
     totalCount |-> IF parsedTotal = 0 THEN Len(frags) ELSE parsedTotal]

SampleProfile == [registrationDate |-> Null, name |-> <<65>>, avatar |-> Null]

InitAgg ==
    /\ pc = "gathered"
    /\ arg = Null
    /\ ret = Null
    /\ userProfile \in {Null, Some(SampleProfile)}
    /\ \E n \in 0..MaxMovieItems : \E f \in [1..n -> MovieFrags] :
       \E t \in ParsedTotals :
          moviesAndTV = GatheredResult("movie", f, t)
    /\ \E n \in 0..MaxBookItems : \E f \in [1..n -> BookFrags] :
       \E t \in ParsedTotals :
          books = GatheredResult("book", f, t)
    /\ \E n \in 0..MaxMusicItems : \E f \in [1..n -> MusicFrags] :
       \E t \in ParsedTotals :
          music = GatheredResult("music", f, t)
    /\ report = Null
    /\ origin = NoOrigin
    /\ fc = [c \in Categories |-> IdleCall]
    /\ trace = [c \in Categories |-> <<>>]
    /\ ui = IdleUI

Aggregate ==
    /\ pc = "gathered"
    /\ report' = Some(BuildReport(userProfile, moviesAndTV, books, music))
    /\ pc' = "done"
    /\ UNCHANGED <<ui, arg, ret, userProfile, moviesAndTV, books, music,
                   origin, fc, trace>>

NextAgg == Aggregate

SpecAgg == InitAgg /\ [][NextAgg]_vars

Kinds == {"movie", "tv", "book", "music"}

\* The gathered items of one kind, in fetch order.
GatheredOfKind(c) ==
    CASE c = "movie" -> SelectSeq(moviesAndTV.items, LAMBDA i : i.type = "movie")
      [] c = "tv" -> SelectSeq(moviesAndTV.items, LAMBDA i : i.type = "tv")
      [] c = "book" -> books.items
      [] c = "music" -> music.items

\* The sum of the ratings of the items, from item i on, that have the
\* resolved year y and a rating of at least 4.
RECURSIVE QualifyingSum(_, _, _)
QualifyingSum(items, i, y) ==
    IF i > Len(items) THEN 0
    ELSE (IF items[i].year = <<y>> /\ items[i].rating >= 4
          THEN items[i].rating ELSE 0)
         + QualifyingSum(items, i + 1, y)

\* The value yearData holds for year y and kind c, from entry k on: 0 when
\* it has no entry for y.
RECURSIVE EntryValue(_, _, _, _)
EntryValue(yearData, k, y, c) ==
    IF k > Len(yearData) THEN 0
    ELSE (IF ParseInt(yearData[k].year) = y THEN yearData[k][c] ELSE 0)
         + EntryValue(yearData, k + 1, y, c)

\* The years some gathered item resolved to.
ResolvedYears ==
    UNION {{its[i].year[1] : i \in {j \in 1..Len(its) : its[j].year # <<>>}} :
              its \in {moviesAndTV.items, books.items, music.items}}

\* The years of the items that have a resolved year and a rating >= 4.
QualifyingYears ==
    UNION {{its[i].year[1] :
                i \in {j \in 1..Len(its) : its[j].year # <<>> /\ its[j].rating >= 4}} :
              its \in {moviesAndTV.items, books.items, music.items}}

EntryYears(yearData) == {ParseInt(yearData[k].year) : k \in 1..Len(yearData)}

\* C3: in the Report, for every year y and every kind c the YearEntry value
\* for (y, c) is the sum of the ratings of exactly the items of kind c that
\* have the resolved year y and rating >= 4; other items contribute nothing.
C3_YearEntrySums ==
    pc = "done" =>
        \A y \in ResolvedYears \cup EntryYears(report[1].yearData) :
            \A c \in Kinds :
                EntryValue(report[1].yearData, 1, y, c)
                    = QualifyingSum(GatheredOfKind(c), 1, y)

\* C4: yearData is in strictly ascending numeric year order, with exactly
\* one YearEntry per distinct year that has a qualifying item (a resolved
\* year and rating >= 4), and no two entries of the same year.
C4_SortedOnePerYear ==
    pc = "done" =>
        LET yd == report[1].yearData
        IN  /\ \A j, k \in 1..Len(yd) :
                  j < k => ParseInt(yd[j].year) < ParseInt(yd[k].year)
            /\ EntryYears(yd) = QualifyingYears

KindRank(c) ==
    CASE c = "movie" -> 1 [] c = "tv" -> 2 [] c = "book" -> 3 [] c = "music" -> 4

\* C5: the Report's item list holds exactly the gathered items with rating
\* >= 4 of all listings, each once, with or without a year: the movies,
\* then the serials, then the books, then the music, each group in its
\* listing's fetch order.
C5_AllHighRated ==
    pc = "done" =>
        LET all == report[1].allItems
        IN  /\ \A j, k \in 1..Len(all) :
                  j < k => KindRank(all[j].type) <= KindRank(all[k].type)
            /\ \A c \in Kinds :
                  SelectSeq(all, LAMBDA i : i.type = c)
                      = SelectSeq(GatheredOfKind(c), LAMBDA i : i.rating >= 4)

\* The movie listing gave a high-rated serial and then a high-rated movie
\* without a year, the book listing a high-rated book: the list holds the
\* movie, then the serial, then the book.
C5_Witness ==
    /\ pc = "done"
    /\ Len(moviesAndTV.items) = 2
    /\ moviesAndTV.items[1].type = "tv"
    /\ moviesAndTV.items[2].type = "movie"
    /\ moviesAndTV.items[2].year = Null
    /\ Len(report[1].allItems) >= 3
    /\ report[1].allItems[1] = moviesAndTV.items[2]
    /\ report[1].allItems[2] = moviesAndTV.items[1]
    /\ report[1].allItems[3].type = "book"

\* C27: every entry of yearData has a category field above 0, and each of
\* its category fields is 0 or at least 4.
C27_EntryFields ==
    pc = "done" =>
        \A i \in DOMAIN report[1].yearData :
            LET e == report[1].yearData[i]
            IN  /\ \E k \in Kinds : e[k] > 0
                /\ \A k \in Kinds : e[k] = 0 \/ e[k] >= 4

\* A Report with a year that has a high-rated movie and a high-rated
\* serial, gathered next to a book rated below 4.
C27_Witness ==
    /\ pc = "done"
    /\ \E i \in DOMAIN report[1].yearData :
          /\ report[1].yearData[i].movie >= 4
          /\ report[1].yearData[i].tv >= 4
    /\ \E i \in DOMAIN books.items : books.items[i].rating < 4

\* C16 as stated: the movie and the serial summary totals add up to the
\* combined count of the movie listing, the parsed total when there is one.
C16_CombinedCount ==
    pc = "done" =>
        report[1].summary.movie.total + report[1].summary.tv.total
            = moviesAndTV.totalCount

\* C16 as amended: the movie and the serial summary totals are the numbers
\* of fetched movie and serial items, and add up to the number of items
\* fetched from the movie listing, whatever total its title shows.
C16_FetchedCount ==
    pc = "done" =>
        /\ report[1].summary.movie.total = Len(GatheredOfKind("movie"))
        /\ report[1].summary.tv.total = Len(GatheredOfKind("tv"))
        /\ report[1].summary.movie.total + report[1].summary.tv.total
              = Len(moviesAndTV.items)

\* A Report over a movie listing titled with a total of 30, of which one
\* movie and one serial were fetched.
C16_Witness ==
    /\ pc = "done"
    /\ moviesAndTV.totalCount = 30
    /\ report[1].summary.movie.total = 1
    /\ report[1].summary.tv.total = 1

(***************************************************************************)
(* fetchUrl (lines 8-16) and fetchCategory (lines 60-120).                 *)
(***************************************************************************)
DELAY_MS == 1000
maxPages == 20
PageSize == 15

\* What an await gives when the awaited call threw.
Thrown == Some([error |-> "rejected"])

IsThrown(v) == v # Null /\ "error" \in DOMAIN v[1]

\* A plausible slip: the error is not caught.
fetchUrlUncaught(response) ==
    IF response.ok THEN response.data ELSE Thrown

\* fetchUrl: the response's data, null when the request failed.
fetchUrl(response) ==
    IF response.ok THEN response.data ELSE Null

\* The page the origin answers the request with offset start with.
Serve(script, start) ==
    LET k == (start \div PageSize) + 1
    IN  IF k <= Len(script.first) THEN script.first[k] ELSE script.rest

\* The regex /\((\d+)\)/ tried at index i, then at i + 1, ...: the index of
\* the leftmost match, 0 when there is none.
RECURSIVE TitleCountFrom(_, _)
TitleCountFrom(titleText, i) ==
    IF i + 2 > Len(titleText) THEN 0
    ELSE IF /\ titleText[i] = 40
            /\ IsDigit(titleText[i + 1])
            /\ DigitsEnd(titleText, i + 1) + 1 <= Len(titleText)
            /\ titleText[DigitsEnd(titleText, i + 1) + 1] = 41 THEN i
    ELSE TitleCountFrom(titleText, i + 1)

\* One entry of a call's trace.
Ev(ev, category, n) == [ev |-> ev, cat |-> category, n |-> n]

\* The locals of a call that has just been made (lines 61-66).
NewCall == [IdleCall EXCEPT !.at = "called"]

\* Lines 114-119: the item-count fallback and the return.
Return(category, f, t) ==
    [f |-> [f EXCEPT !.at = "returned",
                     !.totalCount = IF @ = 0 THEN Len(f.items) ELSE @],
     t |-> t]

\* A plausible slip: the callback is given the zero-based pageCount.
LoopHeadZeroBased(category, f, t) ==
    IF f.hasMore /\ f.pageCount < maxPages
    THEN [f |-> [f EXCEPT !.at = "fetching"],
          t |-> t \o <<Ev("progress", category, f.pageCount),
                       Ev("fetch", category, f.start)>>]
    ELSE Return(category, f, t)

\* A plausible slip: the loop goes on after a page without a next link.
LoopHeadIgnoreHasMore(category, f, t) ==
    IF f.pageCount < maxPages
    THEN [f |-> [f EXCEPT !.at = "fetching"],
          t |-> t \o <<Ev("progress", category, f.pageCount + 1),
                       Ev("fetch", category, f.start)>>]
    ELSE Return(category, f, t)

\* A plausible slip: the loop has no page cap.
LoopHeadNoCap(category, f, t) ==
    IF f.hasMore
    THEN [f |-> [f EXCEPT !.at = "fetching"],
          t |-> t \o <<Ev("progress", category, f.pageCount + 1),
                       Ev("fetch", category, f.start)>>]
    ELSE Return(category, f, t)

\* Lines 68-74: the loop condition, the progress callback and the request
\* of the next page; the return when the condition fails.
LoopHead(category, f, t) ==
    IF f.hasMore /\ f.pageCount < maxPages
    THEN [f |-> [f EXCEPT !.at = "fetching"],
          t |-> t \o <<Ev("progress", category, f.pageCount + 1),
                       Ev("fetch", category, f.start)>>]
    ELSE Return(category, f, t)

\* A plausible slip: the title is parsed on every page.
ParseTotalEveryPage(f, title) ==
    LET m == TitleCountFrom(title, 1)
    IN  IF m # 0
        THEN ParseInt(SubSeq(title, m + 1, DigitsEnd(title, m + 1)))
        ELSE f.totalCount

\* Lines 80-87: on the first page, the count in the title when it has one.
ParseTotal(f, title) ==
    LET m == TitleCountFrom(title, 1)
    IN  IF f.pageCount = 0 /\ m # 0
        THEN ParseInt(SubSeq(title, m + 1, DigitsEnd(title, m + 1)))
        ELSE f.totalCount

\* A plausible slip: the next page is announced before the delay.
ContinueCallbackFirst(category, f, t) ==
    [f |-> [f EXCEPT !.start = @ + PageSize,
                     !.pageCount = @ + 1,
                     !.at = "sleeping"],
     t |-> t \o <<Ev("advance", category, f.start + PageSize),
                  Ev("progress", category, f.pageCount + 2),
                  Ev("sleep", category, DELAY_MS)>>]

\* A plausible slip: the offset is left as it is.
ContinueSameOffset(category, f, t) ==
    [f |-> [f EXCEPT !.pageCount = @ + 1,
                     !.at = "sleeping"],
     t |-> t \o <<Ev("advance", category, f.start),
                  Ev("sleep", category, DELAY_MS)>>]

\* A plausible slip: no delay between two pages.
ContinueNoDelay(category, f, t) ==
    LoopHead(category,
             [f EXCEPT !.start = @ + PageSize, !.pageCount = @ + 1],
             Append(t, Ev("advance", category, f.start + PageSize)))

\* Lines 105-108: the page has a next link.
Continue(category, f, t) ==
    [f |-> [f EXCEPT !.start = @ + PageSize,
                     !.pageCount = @ + 1,
                     !.at = "sleeping"],
     t |-> t \o <<Ev("advance", category, f.start + PageSize),
                  Ev("sleep", category, DELAY_MS)>>]

\* A plausible slip: unshift for push.
RECURSIVE PushParsedFront(_, _, _, _)
PushParsedFront(items, category, listItems, i) ==
    IF i > Len(listItems) THEN items
    ELSE LET item == ParseFn(category, listItems[i])
         IN  PushParsedFront(IF item # Null THEN <<item>> \o items ELSE items,
                             category, listItems, i + 1)

\* Lines 97-102 from fragment i on: every parsed item that is truthy is
\* pushed.
RECURSIVE PushParsed(_, _, _, _)
PushParsed(items, category, listItems, i) ==
    IF i > Len(listItems) THEN items
    ELSE LET item == ParseFn(category, listItems[i])
         IN  PushParsed(IF item # Null THEN Append(items, item) ELSE items,
                        category, listItems, i + 1)

\* Lines 74-112: what the call does with the answer html of its request,
\* up to its next await or its return.
AfterFetch(category, f, t, html) ==
    IF IsThrown(html) THEN [f |-> [f EXCEPT !.at = "rejected"], t |-> t]
    ELSE IF html = Null THEN Return(category, f, t)
    ELSE
      LET page == html[1]
          f1 == [f EXCEPT !.totalCount = ParseTotal(f, page.title)]
      IN  IF Len(page.listItems) = 0
          THEN Return(category, [f1 EXCEPT !.hasMore = FALSE], t)
          ELSE
            LET f2 == [f1 EXCEPT !.items =
                          PushParsed(@, category, page.listItems, 1)]
                t2 == Append(t, Ev("parsed", category, f.pageCount + 1))
            IN  IF page.nextBtn
                THEN Continue(category, f2, t2)
                ELSE LoopHead(category, [f2 EXCEPT !.hasMore = FALSE], t2)

\* The object a returned call gave its caller (line 119).
Result(f) == [items |-> f.items, totalCount |-> f.totalCount]

\* The answer to the outstanding request arrives.
Receive(c) ==
    /\ fc[c].at = "fetching"
    /\ LET r == AfterFetch(c, fc[c], trace[c],
                           fetchUrl(Serve(origin.listing[c], fc[c].start)))
       IN  /\ fc' = [fc EXCEPT ![c] = r.f]
           /\ trace' = [trace EXCEPT ![c] = r.t]
    /\ UNCHANGED <<ui, pc, arg, ret, userProfile, moviesAndTV, books, music,
                   report, origin>>

\* The inter-page delay is over (line 108).
Wake(c) ==
    /\ fc[c].at = "sleeping"
    /\ LET r == LoopHead(c, fc[c], trace[c])
       IN  /\ fc' = [fc EXCEPT ![c] = r.f]
           /\ trace' = [trace EXCEPT ![c] = r.t]
    /\ UNCHANGED <<ui, pc, arg, ret, userProfile, moviesAndTV, books, music,
                   report, origin>>

\* A page of a listing: the text of its title element, its listing
\* fragments ('.item, .subject-item') and whether it has a 'span.next a'.
Page(title, listItems, nextBtn) ==
    [title |-> title, listItems |-> listItems, nextBtn |-> nextBtn]

(***************************************************************************)
(* One fetchCategory call on its own, for every origin whose first         *)
(* MaxVaried pages are any of SampleResponses and whose later pages all    *)
(* fail or all list one item and a next link.                              *)
(***************************************************************************)
SamplePageTitles ==
    { <<84>>,                                \* "T"
      <<84, 40, 51, 48, 41>>,                \* "T(30)"
      <<40, 48, 41>>,                        \* "(0)"
      <<40, 97, 41, 40, 49, 50, 41>> }       \* "(a)(12)"

SampleListings ==
    { <<>>,
      <<Frag(<<65>>, Y2019, SpanOf(RatingT(4)))>>,
      <<Frag(<<>>, Y1999, SpanOf(RatingT(5))),          \* no title link
        Frag(<<88, 23395>>, <<>>, <<>>)>> }

SampleResponses ==
    {NetError} \cup
    {NetOk(Page(t, l, n)) : t \in SamplePageTitles, l \in SampleListings,
                            n \in BOOLEAN}

\* A later page: "T(7)", one item, a next link.
PlainPage == Page(<<84, 40, 55, 41>>, <<Frag(<<66>>, Y2005, <<>>)>>, TRUE)

\* The answer makes the call request the page after it.
LeadsOn(response) ==
    /\ response.ok
    /\ Len(response.data[1].listItems) > 0
    /\ response.data[1].nextBtn

InitCategory ==
    /\ pc = "fetchCategory"
    /\ arg \in Categories
    /\ ret = Null
    /\ userProfile = Null
    /\ moviesAndTV = EmptyResult
    /\ books = EmptyResult
    /\ music = EmptyResult
    /\ report = Null
    /\ \E n \in 0..MaxVaried : \E first \in [1..n -> SampleResponses] :
       \E rest \in {NetError, NetOk(PlainPage)} :
          \* pages behind a page that ends the loop are never requested
          /\ \A k \in 1..(n - 1) : LeadsOn(first[k])
          /\ origin = [NoOrigin EXCEPT !.listing[arg] =
                                           [first |-> first, rest |-> rest]]
    /\ fc = [c \in Categories |-> IdleCall]
    /\ trace = [c \in Categories |-> <<>>]
    /\ ui = IdleUI

\* The call, up to its first await.
CallFetchCategory ==
    /\ pc = "fetchCategory"
    /\ LET r == LoopHead(arg, NewCall, <<>>)
       IN  /\ fc' = [fc EXCEPT ![arg] = r.f]
           /\ trace' = [trace EXCEPT ![arg] = r.t]
    /\ pc' = "awaited"
    /\ UNCHANGED <<ui, arg, ret, userProfile, moviesAndTV, books, music, report,
                   origin>>

\* The caller's await gives the call's result.
ReturnCategory ==
    /\ pc = "awaited"
    /\ fc[arg].at = "returned"
    /\ ret' = Some(Result(fc[arg]))
    /\ pc' = "returned"
    /\ UNCHANGED pipelineVars
    /\ UNCHANGED <<ui, arg>>

NextCategory ==
    \/ CallFetchCategory
    \/ \E c \in Categories : Receive(c)
    \/ \E c \in Categories : Wake(c)
    \/ ReturnCategory

SpecCategory == InitCategory /\ [][NextCategory]_vars

(***************************************************************************)
(* Claims about one fetchCategory call.                                    *)
(***************************************************************************)
IsFetch(e) == e.ev = "fetch"
IsProgress(e) == e.ev = "progress"
Fetches(c) == SelectSeq(trace[c], IsFetch)
Progress(c) == SelectSeq(trace[c], IsProgress)

\* What the origin answers the request of page k of listing c with.
PageOf(c, k) ==
    IF k <= Len(origin.listing[c].first)
    THEN origin.listing[c].first[k]
    ELSE origin.listing[c].rest

\* C11: a listing fragment with no resolvable title yields no item, so no
\* gathered item has an empty title.
C11_UntitledSkipped ==
    \A c \in Categories : \A i \in DOMAIN fc[c].items :
        fc[c].items[i].title # <<>>

\* The parenthesized integers of a title, by the index of their "(".
ParenInts(t) ==
    { p \in (1..Len(t)) \X (1..Len(t)) :
        /\ p[1] + 1 < p[2]
        /\ t[p[1]] = 40
        /\ t[p[2]] = 41
        /\ \A k \in (p[1] + 1)..(p[2] - 1) : IsDigit(t[k]) }

FirstParenInt(t) ==
    LET p == CHOOSE q \in ParenInts(t) : \A r \in ParenInts(t) : q[1] <= r[1]
    IN  ParseInt(SubSeq(t, p[1] + 1, p[2] - 1))

\* C12: the returned totalCount is the parenthesized integer of the first
\* page's title when there is one and it is positive, and the number of
\* fetched items otherwise; later titles do not change it.
C12_TotalCount ==
    \A c \in Categories :
        fc[c].at = "returned" =>
            LET r == PageOf(c, 1)
                title == IF r.ok THEN r.data[1].title ELSE <<>>
            IN  IF ParenInts(title) # {} /\ FirstParenInt(title) > 0
                THEN fc[c].totalCount = FirstParenInt(title)
                ELSE fc[c].totalCount = Len(fc[c].items)

\* A call that fetched a first page titled "T(30)" and a later page titled
\* "T(7)" has returned 30.
C12_Witness ==
    \E c \in Categories :
        /\ fc[c].at = "returned"
        /\ Len(Fetches(c)) >= 3
        /\ PageOf(c, 3).ok
        /\ fc[c].totalCount = 30
        /\ Len(fc[c].items) # 30

\* C15: the progress callback is invoked once per page fetch, with the
\* category and the 1-based page number, the numbers being 1, 2, 3, ...;
\* the callback for page k comes before page k is parsed.
C15_ProgressPerFetch ==
    \A c \in Categories :
        LET t == trace[c]
            P == Progress(c)
        IN  /\ Len(P) = Len(Fetches(c))
            /\ \A k \in DOMAIN P : P[k].cat = c /\ P[k].n = k
            /\ \A i \in DOMAIN t :
                  IsFetch(t[i]) => i > 1 /\ IsProgress(t[i - 1])
            /\ \A i \in DOMAIN t :
                  t[i].ev = "parsed" =>
                      \E j \in 1..(i - 1) :
                          IsProgress(t[j]) /\ t[j].n = t[i].n

\* A call that parsed its third page.
C15_Witness ==
    \E c \in Categories :
        /\ Len(Progress(c)) >= 3
        /\ \E i \in DOMAIN trace[c] :
              trace[c][i].ev = "parsed" /\ trace[c][i].n = 3

\* The items of the n first pages of listing c: every fragment of every
\* page that was answered, parsed, in order.
RECURSIVE ItemsOfPages(_, _)
ItemsOfPages(c, n) ==
    IF n = 0 THEN <<>>
    ELSE LET r == PageOf(c, n)
         IN  ItemsOfPages(c, n - 1) \o
             (IF r.ok
              THEN [i \in DOMAIN r.data[1].listItems |->
                        ParseFn(c, r.data[1].listItems[i])]
              ELSE <<>>)

\* C17: page k + 1 is requested only if page k was answered, had a listing
\* fragment and a next link, and k < 20; the returned items are exactly
\* those of the pages fetched.
C17_Pagination ==
    \A c \in Categories :
        /\ \A k \in 1..(Len(Fetches(c)) - 1) :
              /\ PageOf(c, k).ok
              /\ Len(PageOf(c, k).data[1].listItems) > 0
              /\ PageOf(c, k).data[1].nextBtn
              /\ k < 20
        /\ fc[c].at = "returned" =>
              fc[c].items = ItemsOfPages(c, Len(Fetches(c)))

\* A call that returned after a second page with items and no next link.
C17_Witness ==
    \E c \in Categories :
        /\ fc[c].at = "returned"
        /\ Len(Fetches(c)) = 2
        /\ PageOf(c, 2).ok
        /\ Len(PageOf(c, 2).data[1].listItems) > 0
        /\ ~PageOf(c, 2).data[1].nextBtn
        /\ Len(fc[c].items) >= 2

\* C18: a call issues at most 20 page fetches.
C18_PageCap ==
    \A c \in Categories : Len(Fetches(c)) <= 20

\* A call that returned after 20 pages, each with items and a next link.
C18_Witness ==
    \E c \in Categories :
        /\ fc[c].at = "returned"
        /\ Len(Fetches(c)) = 20
        /\ \A k \in 1..20 :
              /\ PageOf(c, k).ok
              /\ Len(PageOf(c, k).data[1].listItems) > 0
              /\ PageOf(c, k).data[1].nextBtn

\* C19: the k-th request of a call has offset 15 * (k - 1), so no offset is
\* requested twice, and none after a request that failed.
C19_Offsets ==
    \A c \in Categories :
        LET F == Fetches(c)
        IN  /\ \A k \in DOMAIN F : F[k].n = 15 * (k - 1)
            /\ \A j, k \in DOMAIN F : j < k => F[j].n < F[k].n
            /\ \A k \in 1..(Len(F) - 1) : PageOf(c, k).ok

\* A call whose third request failed and that returned.
C19_Witness ==
    \E c \in Categories :
        /\ fc[c].at = "returned"
        /\ Len(Fetches(c)) = 3
        /\ ~PageOf(c, 3).ok
        /\ Fetches(c)[3].n = 30

\* C20 as stated: on each continuation the progress callback for the next
\* page comes before the delay, and the fetch right after the delay.
C20_CallbackBeforeDelay ==
    \A c \in Categories : \A i \in DOMAIN trace[c] :
        trace[c][i].ev = "sleep" =>
            /\ i > 2
            /\ trace[c][i - 2].ev = "advance"
            /\ IsProgress(trace[c][i - 1])
            /\ i < Len(trace[c]) => IsFetch(trace[c][i + 1])

\* C20 as amended: on each continuation the offset is incremented by 15,
\* then the delay is slept, and only then, if the page cap allows another
\* page, is the progress callback for that page invoked and its fetch
\* issued.
C20_DelayBeforeCallback ==
    \A c \in Categories : \A i \in DOMAIN trace[c] :
        /\ trace[c][i].ev = "sleep" =>
              /\ i > 1
              /\ trace[c][i].n = 1000
              /\ trace[c][i - 1].ev = "advance"
              /\ i < Len(trace[c]) =>
                    /\ i + 2 <= Len(trace[c])
                    /\ IsProgress(trace[c][i + 1])
                    /\ IsFetch(trace[c][i + 2])
                    /\ trace[c][i + 2].n = trace[c][i - 1].n
        /\ trace[c][i].ev = "advance" =>
              /\ i < Len(trace[c])
              /\ trace[c][i + 1].ev = "sleep"
              /\ \E j \in 1..(i - 1) :
                    /\ IsFetch(trace[c][j])
                    /\ trace[c][i].n = trace[c][j].n + 15
                    /\ \A k \in (j + 1)..(i - 1) : ~IsFetch(trace[c][k])
        /\ IsProgress(trace[c][i]) /\ trace[c][i].n > 1 =>
              trace[c][i - 1].ev = "sleep"

\* A call that slept and then announced and requested its second page.
C20_Witness ==
    \E c \in Categories : \E i \in DOMAIN trace[c] :
        /\ trace[c][i].ev = "sleep"
        /\ i + 2 <= Len(trace[c])
        /\ IsProgress(trace[c][i + 1])
        /\ trace[c][i + 1].n = 2
        /\ IsFetch(trace[c][i + 2])

(***************************************************************************)
(* fetchDoubanData as a whole (lines 235-301): the profile request, then   *)
(* the three fetchCategory calls side by side, then the aggregation.       *)
(***************************************************************************)

\* A plausible slip: the page is loaded without the test for a failed
\* request, and loading null throws.
fetchUserProfileUnchecked(response) ==
    LET html == fetchUrl(response)
    IN  IF IsThrown(html) \/ html = Null THEN Thrown
        ELSE Some([registrationDate |-> html[1].registrationDate,
                   name |-> html[1].name,
                   avatar |-> html[1].avatar])

\* fetchUserProfile (lines 214-233): null when the request failed, else the
\* registration date, name and avatar the profile page shows.
fetchUserProfile(response) ==
    LET html == fetchUrl(response)
    IN  IF IsThrown(html) THEN Thrown
        ELSE IF html = Null THEN Null
        ELSE Some([registrationDate |-> html[1].registrationDate,
                   name |-> html[1].name,
                   avatar |-> html[1].avatar])

\* A plausible slip: the calls are awaited one by one, so only the first of
\* them is started here.
StartCallsFirstOnly(order, calls, traces) ==
    LET c == Head(order)
        r == LoopHead(c, NewCall, <<>>)
    IN  [fc |-> [calls EXCEPT ![c] = r.f], trace |-> [traces EXCEPT ![c] = r.t]]

\* The three calls of lines 238-240, each up to its first await, in the
\* order of the array.
RECURSIVE StartCalls(_, _, _)
StartCalls(order, calls, traces) ==
    IF order = <<>> THEN [fc |-> calls, trace |-> traces]
    ELSE LET c == Head(order)
             r == LoopHead(c, NewCall, <<>>)
         IN  StartCalls(Tail(order), [calls EXCEPT ![c] = r.f],
                        [traces EXCEPT ![c] = r.t])

\* Line 236 resumes with the profile; lines 237-241 start the three calls.
ProfileDone ==
    /\ pc = "profile"
    /\ LET p == fetchUserProfile(origin.profile)
       IN  IF IsThrown(p)
           THEN /\ pc' = "threw"
                /\ UNCHANGED <<userProfile, fc, trace>>
           ELSE LET s == StartCalls(<<"movie", "book", "music">>, fc, trace)
                IN  /\ userProfile' = p
                    /\ fc' = s.fc
                    /\ trace' = s.trace
                    /\ pc' = "fanout"
    /\ UNCHANGED <<ui, arg, ret, moviesAndTV, books, music, report, origin>>

\* Promise.all settles (lines 237-241): with the three results once every
\* call has returned, with a rejection as soon as one call rejected.
Join ==
    /\ pc = "fanout"
    /\ IF \E c \in Categories : fc[c].at = "rejected" THEN TRUE
       ELSE \A c \in Categories : fc[c].at = "returned"
    /\ IF \E c \in Categories : fc[c].at = "rejected"
       THEN /\ pc' = "threw"
            /\ UNCHANGED <<moviesAndTV, books, music>>
       ELSE /\ moviesAndTV' = Result(fc["movie"])
            /\ books' = Result(fc["book"])
            /\ music' = Result(fc["music"])
            /\ pc' = "gathered"
    /\ UNCHANGED <<ui, arg, ret, userProfile, report, origin, fc, trace>>

\* What the origin may answer one listing's requests with.
SampleScripts ==
    LET high == Frag(<<65>>, Y2019, SpanOf(RatingT(4)))
        serial == Frag(<<88, 23395>>, Y1999, DivOf(AllStar(50)))
        low == Frag(<<68>>, Y2019, SpanOf(RatingT(3)))
        noYear == Frag(<<67>>, <<>>, SpanOf(RatingT(5)))
        T == <<84>>
        T30 == <<84, 40, 51, 48, 41>>
        T7 == <<84, 40, 55, 41>>
    IN  { [first |-> <<>>, rest |-> NetError],
          [first |-> <<NetOk(Page(T30, <<high>>, FALSE))>>, rest |-> NetError],
          [first |-> <<NetOk(Page(T, <<high, serial>>, TRUE))>>,
           rest |-> NetError],
          [first |-> <<NetOk(Page(T30, <<high>>, TRUE)),
                       NetOk(Page(T7, <<serial>>, FALSE))>>,
           rest |-> NetError],
          [first |-> <<NetOk(Page(T30, <<>>, FALSE))>>, rest |-> NetError],
          [first |-> <<NetOk(Page(T, <<low, noYear>>, FALSE))>>,
           rest |-> NetError] }

\* fetchDoubanData has been called and awaits the profile (line 236).
Init ==
    /\ pc = "profile"
    /\ arg = Null
    /\ ret = Null
    /\ userProfile = Null
    /\ moviesAndTV = EmptyResult
    /\ books = EmptyResult
    /\ music = EmptyResult
    /\ report = Null
    /\ \E p \in {NetError, NetOk(SampleProfile)} :
       \E l \in [Categories -> SampleScripts] :
          origin = [profile |-> p, listing |-> l]
    /\ fc = [c \in Categories |-> IdleCall]
    /\ trace = [c \in Categories |-> <<>>]
    /\ ui = IdleUI

Next ==
    \/ ProfileDone
    \/ \E c \in Categories : Receive(c)
    \/ \E c \in Categories : Wake(c)
    \/ Join
    \/ Aggregate

Spec == Init /\ [][Next]_vars

(***************************************************************************)
(* Claims about fetchDoubanData as a whole.                                *)
(***************************************************************************)

\* What Promise.all gave for listing c.
Gathered(c) ==
    CASE c = "movie" -> moviesAndTV
      [] c = "book" -> books
      [] c = "music" -> music

\* The number of pages of listing c a call asks for, as the listing's own
\* pages decide it: up to the first page that is not answered, lists
\* nothing or has no next link, and 20 at most.
PagesAsked(c) ==
    CHOOSE k \in 1..20 :
        /\ k = 20 \/ ~LeadsOn(PageOf(c, k))
        /\ \A j \in 1..(k - 1) : LeadsOn(PageOf(c, j))

\* C13: a fetch failure in one listing changes that listing's result only:
\* whatever the other listings answer and however the three calls
\* interleave, each listing's items and totalCount are those of its own
\* pages up to its own first failure, and fetchDoubanData does not throw
\* but returns a Report.
C13_FailureIsolation ==
    /\ pc # "threw"
    /\ pc \in {"gathered", "done"} =>
          \A c \in Categories :
              LET r == PageOf(c, 1)
                  title == IF r.ok THEN r.data[1].title ELSE <<>>
              IN  /\ Gathered(c).items = ItemsOfPages(c, PagesAsked(c))
                  /\ Gathered(c).totalCount =
                        IF ParenInts(title) # {} /\ FirstParenInt(title) > 0
                        THEN FirstParenInt(title)
                        ELSE Len(Gathered(c).items)
    /\ pc = "done" => report # Null

\* A Report over a movie listing whose second request failed, a book
\* listing of two answered pages and a music listing of one.
C13_Witness ==
    /\ pc = "done"
    /\ report # Null
    /\ LeadsOn(PageOf("movie", 1)) /\ ~PageOf("movie", 2).ok
    /\ Len(moviesAndTV.items) = 2
    /\ PageOf("book", 2).ok
    /\ Len(books.items) = 2 /\ books.totalCount = 30
    /\ PageOf("music", 1).ok /\ ~LeadsOn(PageOf("music", 1))
    /\ Len(music.items) = 1

\* No gathered item has both a rating of 4 or more and a resolved year.
NoQualifyingItem ==
    \A c \in Categories : \A i \in DOMAIN Gathered(c).items :
        ~(Gathered(c).items[i].rating >= 4 /\ Gathered(c).items[i].year # Null)

\* No request was answered: the first request of every listing failed.
NothingFetched == \A c \in Categories : ~PageOf(c, 1).ok

\* C14: fetchDoubanData does not throw; when no gathered item has both a
\* rating of 4 or more and a resolved year (so also when every fetch fails
\* or no listing yields an item) the Report's yearData is empty, and when
\* nothing was fetched every summary has total 0 and an all-zero
\* distribution.
C14_EmptyReport ==
    /\ pc # "threw"
    /\ pc = "done" =>
          /\ report # Null
          /\ NoQualifyingItem => report[1].yearData = <<>>
          /\ NothingFetched =>
                \A k \in Kinds :
                    /\ report[1].summary[k].total = 0
                    /\ \A r \in 0..5 :
                          report[1].summary[k].distribution[r] = 0

\* A Report after the profile request and every listing request failed.
C14_Witness ==
    /\ pc = "done"
    /\ ~origin.profile.ok
    /\ NothingFetched
    /\ report[1].yearData = <<>>
    /\ report[1].userProfile = Null
    /\ report[1].allItems = <<>>

\* The indices of the delays of trace t strictly between i and j.
DelaysBetween(t, i, j) ==
    {k \in (i + 1)..(j - 1) : t[k].ev = "sleep" /\ t[k].n = 1000}

\* C21: within a listing the pages are requested one after the other: a
\* request is outstanding only as the last thing the call did, and between
\* two successive requests the earlier page was parsed and then exactly one
\* delay of 1000 ms was slept, however the three calls interleave.
C21_Sequential ==
    \A c \in Categories :
        LET t == trace[c]
        IN  /\ fc[c].at = "fetching" => t # <<>> /\ IsFetch(t[Len(t)])
            /\ \A i \in DOMAIN t : \A j \in DOMAIN t :
                  (/\ i < j
                   /\ IsFetch(t[i])
                   /\ IsFetch(t[j])
                   /\ \A k \in (i + 1)..(j - 1) : ~IsFetch(t[k])) =>
                      /\ Cardinality(DelaysBetween(t, i, j)) = 1
                      /\ \E p \in (i + 1)..(j - 1) :
                            /\ t[p].ev = "parsed"
                            /\ \A k \in DelaysBetween(t, i, j) : p < k

\* The movie and the book call have each requested their second page while
\* the music call still waits for its first.
C21_Witness ==
    /\ Len(Fetches("movie")) = 2
    /\ Len(Fetches("book")) = 2
    /\ fc["music"].at = "fetching"
    /\ Len(Fetches("music")) = 1

\* The answer ends the pagination with nothing gathered from it: the
\* request failed, or the page lists no fragment.
GivesNothing(response) ==
    ~response.ok \/ Len(response.data[1].listItems) = 0

\* C22: when the request of page k fails, or page k lists no fragment, the
\* call does not throw but returns the items of pages 1..k-1 in order; a
\* failure of the first request gives no item and totalCount 0.
C22_PartialResult ==
    \A c \in Categories :
        /\ fc[c].at # "rejected"
        /\ fc[c].at = "returned" =>
              LET k == Len(Fetches(c))
              IN  /\ k >= 1 /\ GivesNothing(PageOf(c, k)) =>
                        fc[c].items = ItemsOfPages(c, k - 1)
                  /\ k >= 1 /\ ~PageOf(c, 1).ok =>
                        fc[c].items = <<>> /\ fc[c].totalCount = 0

\* A call that returned the items of its two first pages when the request
\* of the third failed.
C22_Witness ==
    \E c \in Categories :
        /\ fc[c].at = "returned"
        /\ Len(Fetches(c)) = 3
        /\ ~PageOf(c, 3).ok
        /\ Len(fc[c].items) >= 2
        /\ fc[c].items = ItemsOfPages(c, 2)

\* C23 as stated: the profile request runs side by side with the three
\* category calls, so while it is outstanding the first page request of
\* each listing has been issued.
C23_ProfileConcurrent ==
    pc = "profile" => \A c \in Categories : fc[c].at = "fetching"

\* C23 as amended: the profile request comes first and alone; once it has
\* completed the three category calls are started together and run side
\* by side, and the one join point is after all three have returned.
C23_ProfileFirst ==
    /\ pc = "profile" =>
          \A c \in Categories : fc[c].at = "idle" /\ trace[c] = <<>>
    /\ pc = "fanout" => \A c \in Categories : fc[c].at # "idle"
    /\ pc \in {"gathered", "done"} =>
          \A c \in Categories : fc[c].at = "returned"

\* The profile is in; the movie call sleeps between two pages, the book
\* call has returned and the music call waits for its first page.
C23_Witness ==
    /\ pc = "fanout"
    /\ userProfile # Null
    /\ fc["movie"].at = "sleeping"
    /\ fc["book"].at = "returned"
    /\ fc["music"].at = "fetching"

\* The fragments the origin emitted on the n first pages of listing c, page
\* by page and in document order.
RECURSIVE Emitted(_, _)
Emitted(c, n) ==
    IF n = 0 THEN <<>>
    ELSE Emitted(c, n - 1) \o
         (IF PageOf(c, n).ok THEN PageOf(c, n).data[1].listItems ELSE <<>>)

\* The positions of the gathered movie-listing items of one type.
PositionsOfType(type) ==
    {p \in DOMAIN moviesAndTV.items : moviesAndTV.items[p].type = type}

\* The entries of a summary's recent list are the leading items of one type
\* of the movie listing, in the listing's order.
KeepsOrder(recent, type) ==
    \A k \in DOMAIN recent :
        \E p \in PositionsOfType(type) :
            /\ Cardinality({q \in PositionsOfType(type) : q < p}) = k - 1
            /\ recent[k].title = moviesAndTV.items[p].title
            /\ recent[k].rating = moviesAndTV.items[p].rating

\* C24: the gathered items of a listing are in the order the origin emitted
\* their fragments, page after page and in document order within a page;
\* the movie and the serial part of the Report keep that order.
C24_OriginOrder ==
    pc = "done" =>
        /\ \A c \in Categories :
              LET e == Emitted(c, PagesAsked(c))
              IN  /\ Len(Gathered(c).items) = Len(e)
                  /\ \A i \in DOMAIN e :
                        /\ Gathered(c).items[i].title
                              = Trim(SplitHead(e[i].titleText))
                        /\ Gathered(c).items[i].rating = parseRating(e[i])
        /\ Len(report[1].summary.movie.recent)
              = Cardinality(PositionsOfType("movie"))
        /\ Len(report[1].summary.tv.recent)
              = Cardinality(PositionsOfType("tv"))
        /\ KeepsOrder(report[1].summary.movie.recent, "movie")
        /\ KeepsOrder(report[1].summary.tv.recent, "tv")

\* A Report over a book listing of two pages with different items and a
\* movie listing with two different movies on one page.
C24_Witness ==
    /\ pc = "done"
    /\ PagesAsked("book") = 2
    /\ Len(books.items) = 2
    /\ books.items[1].title # books.items[2].title
    /\ Len(report[1].summary.movie.recent) = 2
    /\ report[1].summary.movie.recent[1].title
          # report[1].summary.movie.recent[2].title

(***************************************************************************)
(* fetchDoubanData under the scheduling the runtime gives it: a request    *)
(* that is outstanding is answered or fails, a timer fires, and a          *)
(* continuation that can run does run.  Each listing fails at once, has    *)
(* two pages, or offers a next link on every page.                         *)
(***************************************************************************)
LiveScripts ==
    { [first |-> <<>>, rest |-> NetError],
      [first |-> <<NetOk(Page(<<84>>,
                              <<Frag(<<65>>, Y2019, SpanOf(RatingT(4)))>>,
                              TRUE)),
                   NetOk(Page(<<84>>,
                              <<Frag(<<66>>, Y1999, SpanOf(RatingT(5)))>>,
                              FALSE))>>,
       rest |-> NetError],
      [first |-> <<>>, rest |-> NetOk(PlainPage)] }

InitLive ==
    /\ pc = "profile"
    /\ arg = Null
    /\ ret = Null
    /\ userProfile = Null
    /\ moviesAndTV = EmptyResult
    /\ books = EmptyResult
    /\ music = EmptyResult
    /\ report = Null
    /\ \E p \in {NetError, NetOk(SampleProfile)} :
       \E l \in [Categories -> LiveScripts] :
          origin = [profile |-> p, listing |-> l]
    /\ fc = [c \in Categories |-> IdleCall]
    /\ trace = [c \in Categories |-> <<>>]
    /\ ui = IdleUI

\* No request stays outstanding for ever (Receive(c) is enabled exactly
\* while fc[c].at = "fetching"), and the aggregation, which is synchronous
\* code, runs once Promise.all has settled.
LiveSpec ==
    /\ InitLive
    /\ [][Next]_vars
    /\ WF_vars(ProfileDone)
    /\ \A c \in Categories : []<>(fc[c].at # "fetching")
    /\ \A c \in Categories : WF_vars(Wake(c))
    /\ WF_vars(Join)
    /\ []<>(pc # "gathered")

\* C25: provided every fetch resolves or fails, every call of
\* fetchDoubanData eventually returns a Report, also when a listing offers
\* a next link on every page.
C25_ReturnsReport == <>(pc = "done" /\ report # Null)

\* A Report returned after each of the three calls fetched 20 pages.
C25_Witness ==
    /\ pc = "done"
    /\ report # Null
    /\ \A c \in Categories : Len(Fetches(c)) = 20

\* C26: a call sleeps the delay only between two requests: once it has
\* returned, every delay of its trace is followed by a request.
C26_DelayOnlyBetweenFetches ==
    \A c \in Categories :
        fc[c].at = "returned" =>
            \A i \in DOMAIN trace[c] :
                trace[c][i].ev = "sleep" =>
                    \E j \in (i + 1)..Len(trace[c]) : IsFetch(trace[c][j])

(***************************************************************************)
(* The App component around handleSearch (App.jsx lines 195-260 and        *)
(* 358-378): the username input, the GO button, and the handleSearch       *)
(* calls that await their fetchDoubanData.                                 *)
(***************************************************************************)
MaxSearches == 2

\* What is typed into the input: "", "a" or "b".
SampleUsernames == {<<>>, <<97>>, <<98>>}

\* What fetchDoubanData(username, ..) may resolve with: a Report without
\* and one with year entries.
SampleReports(username) ==
    { [yearData |-> <<>>,
       summary |-> [owner |-> username],
       userProfile |-> Null],
      [yearData |-> <<[year |-> "2019", movie |-> 4, tv |-> 0, book |-> 0,
                       music |-> 0]>>,
       summary |-> [owner |-> username],
       userProfile |-> Some([registrationDate |-> Null, name |-> username,
                             avatar |-> Null])] }

\* handleSearch up to its await (lines 228-237).
handleSearch(u) ==
    IF u.username = <<>> THEN u
    ELSE [u EXCEPT !.loading = TRUE,
                   !.error = "",
                   !.data = Null,
                   !.summary = Null,
                   !.status = [text |-> "start", category |-> "", page |-> 0],
                   !.pending = Append(@, u.username),
                   !.started = @ + 1]

\* handleSearch from its await on (lines 245-259), for the call i.
handleSearchResumed(u, i, result) ==
    LET shown ==
            IF Len(result.yearData) = 0
            THEN [u EXCEPT !.error = "notfound"]
            ELSE [u EXCEPT !.data = Some(result.yearData),
                           !.summary = Some(result.summary),
                           !.userProfile = result.userProfile]
    IN  [shown EXCEPT !.loading = FALSE,
                      !.status = NoStatus,
                      !.pending = SubSeq(@, 1, i - 1) \o
                                  SubSeq(@, i + 1, Len(@))]

InitUI ==
    /\ pc = "mounted"
    /\ arg = Null
    /\ ret = Null
    /\ NoPipeline

\* onChange of the input (line 364); the input is rendered while !data.
ChangeUsername ==
    /\ ui.data = Null
    /\ \E name \in SampleUsernames : ui' = [ui EXCEPT !.username = name]
    /\ UNCHANGED <<pc, arg, ret, pipelineVars>>

\* onClick of the button (lines 370-372), which is disabled while loading.
ClickGo ==
    /\ ui.data = Null
    /\ ~ui.loading
    /\ ui.started < MaxSearches
    /\ ui' = handleSearch(ui)
    /\ UNCHANGED <<pc, arg, ret, pipelineVars>>

\* onKeyDown of the input with the Enter key (line 367).
PressEnter ==
    /\ ui.data = Null
    /\ ui.started < MaxSearches
    /\ ui' = handleSearch(ui)
    /\ UNCHANGED <<pc, arg, ret, pipelineVars>>

\* The progress callback of a pending call (lines 237-244).
ShowProgress ==
    /\ ui.pending # <<>>
    /\ \E category \in Categories : \E page \in 1..maxPages :
          ui' = [ui EXCEPT !.status = [text |-> "page", category |-> category,
                                       page |-> page]]
    /\ UNCHANGED <<pc, arg, ret, pipelineVars>>

\* The fetchDoubanData of a pending call resolves.
Resolve ==
    /\ \E i \in DOMAIN ui.pending :
       \E result \in SampleReports(ui.pending[i]) :
          ui' = handleSearchResumed(ui, i, result)
    /\ UNCHANGED <<pc, arg, ret, pipelineVars>>

NextUI ==
    \/ ChangeUsername
    \/ ClickGo
    \/ PressEnter
    \/ ShowProgress
    \/ Resolve

SpecUI == InitUI /\ [][NextUI]_vars

\* C28: at most one handleSearch call awaits its fetchDoubanData at any
\* time, whether searches are started by the button or by the Enter key.
C28_SingleFlight == Len(ui.pending) <= 1

====
